---- MODULE Spec2Model ----
(***************************************************************************)
(* kernel/power/suspend.c: the suspend-to-RAM / standby / freeze sequence. *)
(*                                                                         *)
(* Each caller of pm_suspend() is a process with its own program counter   *)
(* and locals (state, error, wakeup).  The globals of the file are         *)
(* pm_mutex, suspend_ops, suspend_freeze_wake, suspend_stats and           *)
(* pm_test_level.  The collaborators the file calls into (notifier chain,  *)
(* freezer, device PM core, CPU hotplug, syscore, console, ftrace) are     *)
(* represented by the record sys, which holds what each of them has done   *)
(* to the machine, and by a nondeterministic ok/fail result at every call  *)
(* that can fail.  log[p] is a history variable: the calls made by the     *)
(* pm_suspend() invocation of p that is in progress, in program order.     *)
(***************************************************************************)
EXTENDS Integers, Sequences, FiniteSets, TLC

\* ---------------------------------------------------------------- bounds
MaxCalls == 2      \* pm_suspend() invocations in one behaviour
MaxAgain == 2      \* times suspend_ops->suspend_again() answers true in one call

\* ------------------------------------------------------------- constants
PM_SUSPEND_ON      == 0
PM_SUSPEND_FREEZE  == 1
PM_SUSPEND_STANDBY == 2
PM_SUSPEND_MEM     == 3
PM_SUSPEND_MAX     == 4

EPERM  == 1
EBUSY  == 16
ENODEV == 19
EINVAL == 22
ENOSYS == 38

Procs   == {"p1", "p2"}
NoOwner == "none"
NULL    == "NULL"

\* suspend_state_t values a caller may pass, in and out of range
States  == PM_SUSPEND_ON .. PM_SUSPEND_MAX

TestLevels == {"TEST_NONE", "TEST_CORE", "TEST_CPUS", "TEST_PLATFORM",
               "TEST_DEVICES", "TEST_FREEZER"}

Outcomes == {"ok", "fail"}

\* The optional callbacks of struct platform_suspend_ops used by the file.
AllCaps == {"valid", "begin", "prepare", "prepare_late", "enter", "wake",
            "finish", "suspend_again", "end", "recover"}

\* Platform drivers that may be registered: the callbacks each provides and
\* the states its valid() callback accepts.
DriverCaps ==
  [ full        |-> AllCaps,
    mem_only    |-> {"valid", "enter"},
    forward     |-> {"valid", "enter", "begin", "prepare", "prepare_late",
                     "suspend_again"},
    backward    |-> {"valid", "enter", "wake", "finish", "end", "recover"},
    no_enter    |-> {"valid", "begin", "end"},
    NULL        |-> {} ]

DriverValid ==
  [ full        |-> {PM_SUSPEND_STANDBY, PM_SUSPEND_MEM},
    mem_only    |-> {PM_SUSPEND_MEM},
    forward     |-> {PM_SUSPEND_MEM},
    backward    |-> {PM_SUSPEND_STANDBY, PM_SUSPEND_MEM},
    no_enter    |-> {PM_SUSPEND_MEM},
    NULL        |-> {} ]

Drivers == DOMAIN DriverCaps

\* A distinct error value for every collaborator that can fail, so that the
\* value a caller gets back names the call that produced it.
CollabErr ==
  [ pm_notifier_call_chain   |-> -101,
    suspend_freeze_processes |-> -102,
    begin                    |-> -103,
    dpm_suspend_start        |-> -104,
    prepare                  |-> -105,
    dpm_suspend_end          |-> -106,
    prepare_late             |-> -107,
    disable_nonboot_cpus     |-> -108,
    syscore_suspend          |-> -109,
    enter                    |-> -110 ]

VARIABLES
  pm_mutex,              \* owner of pm_mutex, or NoOwner
  suspend_ops,           \* the registered driver, or NULL
  suspend_freeze_wake,   \* the flag freeze_enter() waits for
  suspend_stats,         \* [success, fail, failed_freeze]
  pm_test_level,         \* the debug checkpoint (CONFIG_PM_DEBUG)
  sys,                   \* what the collaborators have done to the machine
  pc,                    \* per caller: where it is in pm_suspend()
  state,                 \* per caller: the argument of pm_suspend()
  error,                 \* per caller: the local error
  wakeup,                \* per caller: the local of suspend_devices_and_enter()
  loaded,                \* per caller: the counter value read by ++
  nagain,                \* per caller: suspend_again() answers of true so far
  log,                   \* per caller: calls made by the invocation in progress
  calls,                 \* pm_suspend() invocations so far
  ops_pc,                \* where the platform code calling suspend_set_ops() is
  ops_arg                \* the argument of suspend_set_ops()

globals == <<pm_mutex, suspend_ops, suspend_freeze_wake, suspend_stats,
             pm_test_level, sys>>
locals  == <<pc, state, error, wakeup, loaded, nagain, log>>
setter  == <<ops_pc, ops_arg>>
vars    == <<globals, locals, calls, setter>>

Operative ==
  [ console      |-> "normal",
    notifiers    |-> "none",
    frozen       |-> FALSE,
    gfp          |-> "normal",
    console_out  |-> "running",
    ftrace       |-> "running",
    devs         |-> "active",
    cpus         |-> "online",
    irqs         |-> "enabled",
    syscore      |-> "running" ]

\* ---------------------------------------------------------------- helpers
Has(ops, cap) == cap \in DriverCaps[ops]

need_suspend_ops(s) == s > PM_SUSPEND_FREEZE

\* valid_state(), evaluated on one value of suspend_ops.
valid_state(s) ==
  IF s = PM_SUSPEND_FREEZE
  THEN pm_test_level \in {"TEST_NONE", "TEST_FREEZER", "TEST_DEVICES",
                          "TEST_PLATFORM"}
  ELSE /\ suspend_ops # NULL
       /\ Has(suspend_ops, "valid")
       /\ s \in DriverValid[suspend_ops]

suspend_test(level) == pm_test_level = level

\* The log entry of a call site of an optional callback: its result when the
\* state needs a driver and the driver has the callback, "absent" otherwise.
CapEv(s, cap, r) ==
  IF need_suspend_ops(s) /\ Has(suspend_ops, cap) THEN <<cap, r>>
  ELSE <<cap, "absent">>

Goto(p, label) == pc' = [pc EXCEPT ![p] = label]
SetError(p, e) == error' = [error EXCEPT ![p] = e]
Log(p, evs)    == log' = [log EXCEPT ![p] = @ \o evs]
Sys(f, v)      == sys' = [sys EXCEPT ![f] = v]
ErrOf(f, r)    == IF r = "ok" THEN 0 ELSE CollabErr[f]
Bool(b)        == IF b THEN "true" ELSE "false"

\* ------------------------------------------------------------------- Init
\* The state after boot: nothing registered, nobody suspending.
Boot(ops, level) ==
  /\ pm_mutex = NoOwner
  /\ suspend_ops = ops
  /\ suspend_freeze_wake = FALSE
  /\ suspend_stats = [success |-> 0, fail |-> 0, failed_freeze |-> 0]
  /\ pm_test_level = level
  /\ sys = Operative
  /\ pc = [p \in Procs |-> "idle"]
  /\ state = [p \in Procs |-> PM_SUSPEND_ON]
  /\ error = [p \in Procs |-> 0]
  /\ wakeup = [p \in Procs |-> FALSE]
  /\ loaded = [p \in Procs |-> 0]
  /\ nagain = [p \in Procs |-> 0]
  /\ log = [p \in Procs |-> <<>>]
  /\ calls = 0
  /\ ops_pc = "idle"
  /\ ops_arg = NULL

\* ------------------------------------------------------------- pm_suspend
\* pm_suspend(): the range check, the early-suspend hook and the call of
\* enter_state().  A new invocation starts with fresh locals.
PmSuspend(p, s) ==
  /\ pc[p] = "idle"
  /\ calls' = calls + 1
  /\ state' = [state EXCEPT ![p] = s]
  /\ wakeup' = [wakeup EXCEPT ![p] = FALSE]
  /\ nagain' = [nagain EXCEPT ![p] = 0]
  /\ loaded' = [loaded EXCEPT ![p] = 0]
  /\ IF s <= PM_SUSPEND_ON \/ s >= PM_SUSPEND_MAX
     THEN /\ SetError(p, -EINVAL)
          /\ log' = [log EXCEPT ![p] = <<>>]
          /\ Goto(p, "ret")
     ELSE /\ SetError(p, 0)
          /\ log' = [log EXCEPT ![p] = << <<"asus_otg_host_power_off", "ok">> >>]
          /\ Goto(p, "valid_state")
  /\ UNCHANGED <<globals, setter>>

\* ValidState without the test: every state in range goes on to the trylock.
ValidState_Unchecked(p) ==
  /\ pc[p] = "valid_state"
  /\ Goto(p, "mutex_trylock")
  /\ UNCHANGED <<globals, state, error, wakeup, loaded, nagain, log, calls,
                 setter>>

\* enter_state(): if (!valid_state(state)) return -ENODEV;
\* valid_state() runs before the trylock.  For PM_SUSPEND_FREEZE it reads no
\* driver.  Otherwise it evaluates
\*   suspend_ops && suspend_ops->valid && suspend_ops->valid(state)
\* which reads the global suspend_ops three times with no lock held, so a
\* suspend_set_ops() may store between the reads (a build that keeps the first
\* value in a register behaves as the runs in which none does).  This step is
\* the FREEZE case and the first read.
ValidState(p) ==
  /\ pc[p] = "valid_state"
  /\ IF state[p] = PM_SUSPEND_FREEZE
     THEN IF valid_state(state[p])
          THEN /\ Goto(p, "mutex_trylock")
               /\ UNCHANGED error
          ELSE /\ SetError(p, -ENODEV)
               /\ Goto(p, "stats_load")
     ELSE IF suspend_ops # NULL
          THEN /\ Goto(p, "valid_state_valid")
               /\ UNCHANGED error
          ELSE /\ SetError(p, -ENODEV)
               /\ Goto(p, "stats_load")
  /\ UNCHANGED <<globals, state, wakeup, loaded, nagain, log, calls, setter>>

\* The second read: suspend_ops->valid.  With suspend_ops NULL by now this
\* reads through a null pointer: the kernel oopses and the thread is gone.
ValidStateValid(p) ==
  /\ pc[p] = "valid_state_valid"
  /\ IF suspend_ops = NULL
     THEN /\ Goto(p, "oops")
          /\ UNCHANGED error
     ELSE IF Has(suspend_ops, "valid")
     THEN /\ Goto(p, "valid_state_call")
          /\ UNCHANGED error
     ELSE /\ SetError(p, -ENODEV)
          /\ Goto(p, "stats_load")
  /\ UNCHANGED <<globals, state, wakeup, loaded, nagain, log, calls, setter>>

\* The third read and the call: suspend_ops->valid(state).
ValidStateCall(p) ==
  /\ pc[p] = "valid_state_call"
  /\ IF suspend_ops = NULL \/ ~Has(suspend_ops, "valid")
     THEN /\ Goto(p, "oops")
          /\ UNCHANGED error
     ELSE IF valid_state(state[p])
     THEN /\ Goto(p, "mutex_trylock")
          /\ UNCHANGED error
     ELSE /\ SetError(p, -ENODEV)
          /\ Goto(p, "stats_load")
  /\ UNCHANGED <<globals, state, wakeup, loaded, nagain, log, calls, setter>>

\* MutexTrylock with the test of the owner lost: the lock is always taken.
MutexTrylock_Blind(p) ==
  /\ pc[p] = "mutex_trylock"
  /\ pm_mutex' = p
  /\ Goto(p, "freeze_begin")
  /\ UNCHANGED <<suspend_ops, suspend_freeze_wake, suspend_stats,
                 pm_test_level, sys, state, error, wakeup, loaded, nagain,
                 log, calls, setter>>

\* MutexTrylock with freeze_begin() called before the trylock: a caller that
\* is turned away has cleared the wake flag.
MutexTrylock_BeginFirst(p) ==
  /\ pc[p] = "mutex_trylock"
  /\ suspend_freeze_wake' =
       IF state[p] = PM_SUSPEND_FREEZE THEN FALSE ELSE suspend_freeze_wake
  /\ IF pm_mutex = NoOwner
     THEN /\ pm_mutex' = p
          /\ Goto(p, "freeze_begin")
          /\ UNCHANGED error
     ELSE /\ SetError(p, -EBUSY)
          /\ Goto(p, "stats_load")
          /\ UNCHANGED pm_mutex
  /\ UNCHANGED <<suspend_ops, suspend_stats, pm_test_level, sys, state,
                 wakeup, loaded, nagain, log, calls, setter>>

\* enter_state(): if (!mutex_trylock(&pm_mutex)) return -EBUSY;
MutexTrylock(p) ==
  /\ pc[p] = "mutex_trylock"
  /\ IF pm_mutex = NoOwner
     THEN /\ pm_mutex' = p
          /\ Goto(p, "freeze_begin")
          /\ UNCHANGED error
     ELSE /\ SetError(p, -EBUSY)
          /\ Goto(p, "stats_load")
          /\ UNCHANGED pm_mutex
  /\ UNCHANGED <<suspend_ops, suspend_freeze_wake, suspend_stats,
                 pm_test_level, sys, state, wakeup, loaded, nagain, log,
                 calls, setter>>

\* FreezeBegin without freeze_begin(): the flag keeps what it held.
FreezeBegin_NoReset(p) ==
  /\ pc[p] = "freeze_begin"
  /\ IF state[p] = PM_SUSPEND_FREEZE
     THEN Log(p, << <<"freeze_begin", "ok">>, <<"sys_sync", "ok">> >>)
     ELSE Log(p, << <<"sys_sync", "ok">> >>)
  /\ Goto(p, "suspend_prepare")
  /\ UNCHANGED <<globals, state, error, wakeup, loaded, nagain, calls, setter>>

\* enter_state(): if (state == PM_SUSPEND_FREEZE) freeze_begin(); sys_sync();
FreezeBegin(p) ==
  /\ pc[p] = "freeze_begin"
  /\ IF state[p] = PM_SUSPEND_FREEZE
     THEN /\ suspend_freeze_wake' = FALSE
          /\ Log(p, << <<"freeze_begin", "ok">>, <<"sys_sync", "ok">> >>)
     ELSE /\ UNCHANGED suspend_freeze_wake
          /\ Log(p, << <<"sys_sync", "ok">> >>)
  /\ Goto(p, "suspend_prepare")
  /\ UNCHANGED <<pm_mutex, suspend_ops, suspend_stats, pm_test_level, sys,
                 state, error, wakeup, loaded, nagain, calls, setter>>

\* suspend_prepare(), and the test of its result in enter_state().
SuspendPrepare(p) ==
  /\ pc[p] = "suspend_prepare"
  /\ IF need_suspend_ops(state[p])
        /\ (suspend_ops = NULL \/ ~Has(suspend_ops, "enter"))
     THEN /\ SetError(p, -EPERM)
          /\ Goto(p, "Unlock")
          /\ UNCHANGED <<sys, suspend_stats, log>>
     ELSE \E n \in Outcomes, f \in Outcomes :
          IF n = "fail"
          THEN \* goto Finish: the notifiers that ran are told POST_SUSPEND
               /\ SetError(p, CollabErr.pm_notifier_call_chain)
               /\ Log(p, << <<"pm_prepare_console", "ok">>,
                            <<"PM_SUSPEND_PREPARE", "fail">>,
                            <<"PM_POST_SUSPEND", "ok">>,
                            <<"pm_restore_console", "ok">> >>)
               /\ Goto(p, "Unlock")
               /\ UNCHANGED <<sys, suspend_stats>>
          ELSE IF f = "fail"
          THEN /\ SetError(p, CollabErr.suspend_freeze_processes)
               /\ suspend_stats' = [suspend_stats EXCEPT
                                      !.failed_freeze = @ + 1]
               /\ Log(p, << <<"pm_prepare_console", "ok">>,
                            <<"PM_SUSPEND_PREPARE", "ok">>,
                            <<"suspend_freeze_processes", "fail">>,
                            <<"suspend_stats.failed_freeze++", "ok">>,
                            <<"PM_POST_SUSPEND", "ok">>,
                            <<"pm_restore_console", "ok">> >>)
               /\ Goto(p, "Unlock")
               /\ UNCHANGED sys
          ELSE /\ SetError(p, 0)
               /\ sys' = [sys EXCEPT !.console = "suspend",
                                     !.notifiers = "prepared",
                                     !.frozen = TRUE]
               /\ Log(p, << <<"pm_prepare_console", "ok">>,
                            <<"PM_SUSPEND_PREPARE", "ok">>,
                            <<"suspend_freeze_processes", "ok">> >>)
               /\ Goto(p, "suspend_test_freezer")
               /\ UNCHANGED suspend_stats
  /\ UNCHANGED <<pm_mutex, suspend_ops, suspend_freeze_wake, pm_test_level,
                 state, wakeup, loaded, nagain, calls, setter>>

\* TestFreezer leaving by Unlock instead of Finish when the checkpoint fires.
TestFreezer_ToUnlock(p) ==
  /\ pc[p] = "suspend_test_freezer"
  /\ IF suspend_test("TEST_FREEZER")
     THEN /\ Log(p, << <<"suspend_test", "TEST_FREEZER">> >>)
          /\ Goto(p, "Unlock")
          /\ UNCHANGED sys
     ELSE /\ Log(p, << <<"pm_restrict_gfp_mask", "ok">> >>)
          /\ Sys("gfp", "restricted")
          /\ Goto(p, "suspend_devices_and_enter")
  /\ UNCHANGED <<pm_mutex, suspend_ops, suspend_freeze_wake, suspend_stats,
                 pm_test_level, state, error, wakeup, loaded, nagain, calls,
                 setter>>

\* enter_state(): if (suspend_test(TEST_FREEZER)) goto Finish;
\*                pm_restrict_gfp_mask();
TestFreezer(p) ==
  /\ pc[p] = "suspend_test_freezer"
  /\ IF suspend_test("TEST_FREEZER")
     THEN /\ Log(p, << <<"suspend_test", "TEST_FREEZER">> >>)
          /\ Goto(p, "Finish")
          /\ UNCHANGED sys
     ELSE /\ Log(p, << <<"pm_restrict_gfp_mask", "ok">> >>)
          /\ Sys("gfp", "restricted")
          /\ Goto(p, "suspend_devices_and_enter")
  /\ UNCHANGED <<pm_mutex, suspend_ops, suspend_freeze_wake, suspend_stats,
                 pm_test_level, state, error, wakeup, loaded, nagain, calls,
                 setter>>

\* ---------------------------------------------- suspend_devices_and_enter
\* SuspendBegin returning at once when begin() fails, without going to Close.
SuspendBegin_NoClose(p) ==
  /\ pc[p] = "suspend_devices_and_enter"
  /\ wakeup' = [wakeup EXCEPT ![p] = FALSE]
  /\ IF need_suspend_ops(state[p]) /\ suspend_ops = NULL
     THEN /\ SetError(p, -ENOSYS)
          /\ Goto(p, "pm_restore_gfp_mask")
          /\ UNCHANGED log
     ELSE IF need_suspend_ops(state[p]) /\ Has(suspend_ops, "begin")
     THEN \E r \in Outcomes :
            /\ SetError(p, ErrOf("begin", r))
            /\ Log(p, << <<"begin", r>> >>)
            /\ Goto(p, IF r = "ok" THEN "dpm_suspend_start"
                       ELSE "pm_restore_gfp_mask")
     ELSE /\ Log(p, << <<"begin", "absent">> >>)
          /\ Goto(p, "dpm_suspend_start")
          /\ UNCHANGED error
  /\ UNCHANGED <<globals, state, loaded, nagain, calls, setter>>

\* The -ENOSYS check and suspend_ops->begin().
SuspendBegin(p) ==
  /\ pc[p] = "suspend_devices_and_enter"
  /\ wakeup' = [wakeup EXCEPT ![p] = FALSE]
  /\ IF need_suspend_ops(state[p]) /\ suspend_ops = NULL
     THEN /\ SetError(p, -ENOSYS)
          /\ Goto(p, "pm_restore_gfp_mask")
          /\ UNCHANGED log
     ELSE IF need_suspend_ops(state[p]) /\ Has(suspend_ops, "begin")
     THEN \E r \in Outcomes :
            /\ SetError(p, ErrOf("begin", r))
            /\ Log(p, << <<"begin", r>> >>)
            /\ Goto(p, IF r = "ok" THEN "dpm_suspend_start" ELSE "Close")
     ELSE /\ Log(p, << <<"begin", "absent">> >>)
          /\ Goto(p, "dpm_suspend_start")
          /\ UNCHANGED error
  /\ UNCHANGED <<globals, state, loaded, nagain, calls, setter>>

\* DpmSuspendStart going to Resume_devices, past Recover_platform, when the
\* TEST_DEVICES checkpoint fires.
DpmSuspendStart_SkipRecover(p) ==
  /\ pc[p] = "dpm_suspend_start"
  /\ \E r \in Outcomes :
       /\ SetError(p, ErrOf("dpm_suspend_start", r))
       /\ sys' = [sys EXCEPT !.console_out = "suspended",
                             !.ftrace = "stopped",
                             !.devs = IF r = "ok" THEN "late" ELSE "partial"]
       /\ IF r = "fail"
          THEN /\ Log(p, << <<"suspend_console", "ok">>, <<"ftrace_stop", "ok">>,
                            <<"dpm_suspend_start", "fail">> >>)
               /\ Goto(p, "Recover_platform")
          ELSE IF suspend_test("TEST_DEVICES")
          THEN /\ Log(p, << <<"suspend_console", "ok">>, <<"ftrace_stop", "ok">>,
                            <<"dpm_suspend_start", "ok">>,
                            <<"suspend_test", "TEST_DEVICES">> >>)
               /\ Goto(p, "Resume_devices")
          ELSE /\ Log(p, << <<"suspend_console", "ok">>, <<"ftrace_stop", "ok">>,
                            <<"dpm_suspend_start", "ok">> >>)
               /\ Goto(p, "suspend_enter")
  /\ UNCHANGED <<pm_mutex, suspend_ops, suspend_freeze_wake, suspend_stats,
                 pm_test_level, state, wakeup, loaded, nagain, calls, setter>>

\* suspend_console(); ftrace_stop(); dpm_suspend_start() and
\* suspend_test(TEST_DEVICES).  A failed dpm_suspend_start() leaves some
\* devices suspended.
DpmSuspendStart(p) ==
  /\ pc[p] = "dpm_suspend_start"
  /\ \E r \in Outcomes :
       /\ SetError(p, ErrOf("dpm_suspend_start", r))
       /\ sys' = [sys EXCEPT !.console_out = "suspended",
                             !.ftrace = "stopped",
                             !.devs = IF r = "ok" THEN "late" ELSE "partial"]
       /\ IF r = "fail"
          THEN /\ Log(p, << <<"suspend_console", "ok">>, <<"ftrace_stop", "ok">>,
                            <<"dpm_suspend_start", "fail">> >>)
               /\ Goto(p, "Recover_platform")
          ELSE IF suspend_test("TEST_DEVICES")
          THEN /\ Log(p, << <<"suspend_console", "ok">>, <<"ftrace_stop", "ok">>,
                            <<"dpm_suspend_start", "ok">>,
                            <<"suspend_test", "TEST_DEVICES">> >>)
               /\ Goto(p, "Recover_platform")
          ELSE /\ Log(p, << <<"suspend_console", "ok">>, <<"ftrace_stop", "ok">>,
                            <<"dpm_suspend_start", "ok">> >>)
               /\ Goto(p, "suspend_enter")
  /\ UNCHANGED <<pm_mutex, suspend_ops, suspend_freeze_wake, suspend_stats,
                 pm_test_level, state, wakeup, loaded, nagain, calls, setter>>

\* ----------------------------------------------------------- suspend_enter
\* Entry of suspend_enter() and suspend_ops->prepare().
PlatformPrepare(p) ==
  /\ pc[p] = "suspend_enter"
  /\ IF need_suspend_ops(state[p]) /\ Has(suspend_ops, "prepare")
     THEN \E r \in Outcomes :
            /\ SetError(p, ErrOf("prepare", r))
            /\ Log(p, << <<"suspend_enter", "call">>, <<"prepare", r>> >>)
            /\ Goto(p, IF r = "ok" THEN "dpm_suspend_end" ELSE "Platform_finish")
     ELSE /\ Log(p, << <<"suspend_enter", "call">>, <<"prepare", "absent">> >>)
          /\ Goto(p, "dpm_suspend_end")
          /\ UNCHANGED error
  /\ UNCHANGED <<globals, state, wakeup, loaded, nagain, calls, setter>>

\* DpmSuspendEnd leaving by Platform_wake instead of Platform_finish after a
\* failure.
DpmSuspendEnd_ToWake(p) ==
  /\ pc[p] = "dpm_suspend_end"
  /\ \E r \in Outcomes :
       /\ SetError(p, ErrOf("dpm_suspend_end", r))
       /\ Log(p, << <<"dpm_suspend_end", r>> >>)
       /\ IF r = "ok"
          THEN /\ Sys("devs", "final")
               /\ Goto(p, "prepare_late")
          ELSE /\ UNCHANGED sys
               /\ Goto(p, "Platform_wake")
  /\ UNCHANGED <<pm_mutex, suspend_ops, suspend_freeze_wake, suspend_stats,
                 pm_test_level, state, wakeup, loaded, nagain, calls, setter>>

\* dpm_suspend_end(); on failure the device core has resumed what it had
\* suspended late, and control goes to Platform_finish.
DpmSuspendEnd(p) ==
  /\ pc[p] = "dpm_suspend_end"
  /\ \E r \in Outcomes :
       /\ SetError(p, ErrOf("dpm_suspend_end", r))
       /\ Log(p, << <<"dpm_suspend_end", r>> >>)
       /\ IF r = "ok"
          THEN /\ Sys("devs", "final")
               /\ Goto(p, "prepare_late")
          ELSE /\ UNCHANGED sys
               /\ Goto(p, "Platform_finish")
  /\ UNCHANGED <<pm_mutex, suspend_ops, suspend_freeze_wake, suspend_stats,
                 pm_test_level, state, wakeup, loaded, nagain, calls, setter>>

\* PlatformPrepareLate with the wrong label after a failure: Platform_finish
\* instead of Platform_wake.
PlatformPrepareLate_WrongLabel(p) ==
  /\ pc[p] = "prepare_late"
  /\ IF need_suspend_ops(state[p]) /\ Has(suspend_ops, "prepare_late")
     THEN \E r \in Outcomes :
            /\ SetError(p, ErrOf("prepare_late", r))
            /\ Log(p, << <<"prepare_late", r>> >>)
            /\ Goto(p, IF r = "ok" THEN "suspend_test_platform"
                       ELSE "Platform_finish")
     ELSE /\ Log(p, << <<"prepare_late", "absent">> >>)
          /\ Goto(p, "suspend_test_platform")
          /\ UNCHANGED error
  /\ UNCHANGED <<globals, state, wakeup, loaded, nagain, calls, setter>>

\* suspend_ops->prepare_late()
PlatformPrepareLate(p) ==
  /\ pc[p] = "prepare_late"
  /\ IF need_suspend_ops(state[p]) /\ Has(suspend_ops, "prepare_late")
     THEN \E r \in Outcomes :
            /\ SetError(p, ErrOf("prepare_late", r))
            /\ Log(p, << <<"prepare_late", r>> >>)
            /\ Goto(p, IF r = "ok" THEN "suspend_test_platform"
                       ELSE "Platform_wake")
     ELSE /\ Log(p, << <<"prepare_late", "absent">> >>)
          /\ Goto(p, "suspend_test_platform")
          /\ UNCHANGED error
  /\ UNCHANGED <<globals, state, wakeup, loaded, nagain, calls, setter>>

\* TestPlatform without the PM_SUSPEND_FREEZE branch.
TestPlatform_NoFreezeBranch(p) ==
  /\ pc[p] = "suspend_test_platform"
  /\ IF suspend_test("TEST_PLATFORM")
     THEN /\ Log(p, << <<"suspend_test", "TEST_PLATFORM">> >>)
          /\ Goto(p, "Platform_wake")
     ELSE /\ UNCHANGED log
          /\ Goto(p, "disable_nonboot_cpus")
  /\ UNCHANGED <<globals, state, error, wakeup, loaded, nagain, calls, setter>>

\* TestPlatform clearing the wake flag just before it waits: a freeze_wake()
\* that came before the wait is forgotten.
TestPlatform_ResetBeforeWait(p) ==
  /\ pc[p] = "suspend_test_platform"
  /\ IF suspend_test("TEST_PLATFORM")
     THEN /\ Log(p, << <<"suspend_test", "TEST_PLATFORM">> >>)
          /\ Goto(p, "Platform_wake")
          /\ UNCHANGED suspend_freeze_wake
     ELSE IF state[p] = PM_SUSPEND_FREEZE
     THEN /\ Log(p, << <<"freeze_enter", "call">> >>)
          /\ Goto(p, "freeze_enter")
          /\ suspend_freeze_wake' = FALSE
     ELSE /\ UNCHANGED <<log, suspend_freeze_wake>>
          /\ Goto(p, "disable_nonboot_cpus")
  /\ UNCHANGED <<pm_mutex, suspend_ops, suspend_stats, pm_test_level, sys,
                 state, error, wakeup, loaded, nagain, calls, setter>>

\* if (suspend_test(TEST_PLATFORM)) goto Platform_wake;
\* if (state == PM_SUSPEND_FREEZE) { freeze_enter(); goto Platform_wake; }
TestPlatform(p) ==
  /\ pc[p] = "suspend_test_platform"
  /\ IF suspend_test("TEST_PLATFORM")
     THEN /\ Log(p, << <<"suspend_test", "TEST_PLATFORM">> >>)
          /\ Goto(p, "Platform_wake")
     ELSE IF state[p] = PM_SUSPEND_FREEZE
     THEN /\ Log(p, << <<"freeze_enter", "call">> >>)
          /\ Goto(p, "freeze_enter")
     ELSE /\ UNCHANGED log
          /\ Goto(p, "disable_nonboot_cpus")
  /\ UNCHANGED <<globals, state, error, wakeup, loaded, nagain, calls, setter>>

\* freeze_enter(): wait_event(suspend_freeze_wait_head, suspend_freeze_wake)
FreezeEnter(p) ==
  /\ pc[p] = "freeze_enter"
  /\ suspend_freeze_wake
  /\ Log(p, << <<"freeze_enter", "ok">> >>)
  /\ Goto(p, "Platform_wake")
  /\ UNCHANGED <<globals, state, error, wakeup, loaded, nagain, calls, setter>>

\* DisableNonbootCpus leaving by Platform_wake instead of Enable_cpus after a
\* failure.
DisableNonbootCpus_NoReenable(p) ==
  /\ pc[p] = "disable_nonboot_cpus"
  /\ \E r \in Outcomes :
       /\ SetError(p, ErrOf("disable_nonboot_cpus", r))
       /\ Sys("cpus", IF r = "ok" THEN "offline" ELSE "partial")
       /\ IF r = "fail"
          THEN /\ Log(p, << <<"disable_nonboot_cpus", "fail">> >>)
               /\ Goto(p, "Platform_wake")
          ELSE IF suspend_test("TEST_CPUS")
          THEN /\ Log(p, << <<"disable_nonboot_cpus", "ok">>,
                            <<"suspend_test", "TEST_CPUS">> >>)
               /\ Goto(p, "Enable_cpus")
          ELSE /\ Log(p, << <<"disable_nonboot_cpus", "ok">> >>)
               /\ Goto(p, "arch_suspend_disable_irqs")
  /\ UNCHANGED <<pm_mutex, suspend_ops, suspend_freeze_wake, suspend_stats,
                 pm_test_level, state, wakeup, loaded, nagain, calls, setter>>

\* disable_nonboot_cpus() and suspend_test(TEST_CPUS).  A failed
\* disable_nonboot_cpus() leaves the CPUs it had taken down offline.
DisableNonbootCpus(p) ==
  /\ pc[p] = "disable_nonboot_cpus"
  /\ \E r \in Outcomes :
       /\ SetError(p, ErrOf("disable_nonboot_cpus", r))
       /\ Sys("cpus", IF r = "ok" THEN "offline" ELSE "partial")
       /\ IF r = "fail"
          THEN /\ Log(p, << <<"disable_nonboot_cpus", "fail">> >>)
               /\ Goto(p, "Enable_cpus")
          ELSE IF suspend_test("TEST_CPUS")
          THEN /\ Log(p, << <<"disable_nonboot_cpus", "ok">>,
                            <<"suspend_test", "TEST_CPUS">> >>)
               /\ Goto(p, "Enable_cpus")
          ELSE /\ Log(p, << <<"disable_nonboot_cpus", "ok">> >>)
               /\ Goto(p, "arch_suspend_disable_irqs")
  /\ UNCHANGED <<pm_mutex, suspend_ops, suspend_freeze_wake, suspend_stats,
                 pm_test_level, state, wakeup, loaded, nagain, calls, setter>>

\* SyscoreSuspend without the test of *wakeup: suspend_ops->enter() is called
\* although a wakeup event is pending.
SyscoreSuspend_IgnorePending(p) ==
  /\ pc[p] = "arch_suspend_disable_irqs"
  /\ \E r \in Outcomes, pending \in BOOLEAN :
       /\ SetError(p, ErrOf("syscore_suspend", r))
       /\ IF r = "fail"
          THEN /\ Log(p, << <<"arch_suspend_disable_irqs", "ok">>,
                            <<"syscore_suspend", "fail">> >>)
               /\ Sys("irqs", "disabled")
               /\ Goto(p, "arch_suspend_enable_irqs")
               /\ UNCHANGED wakeup
          ELSE /\ wakeup' = [wakeup EXCEPT ![p] = pending]
               /\ sys' = [sys EXCEPT !.irqs = "disabled",
                                     !.syscore = "suspended"]
               /\ IF suspend_test("TEST_CORE")
                  THEN /\ Log(p, << <<"arch_suspend_disable_irqs", "ok">>,
                                    <<"syscore_suspend", "ok">>,
                                    <<"pm_wakeup_pending", Bool(pending)>>,
                                    <<"suspend_test", "TEST_CORE">> >>)
                       /\ Goto(p, "syscore_resume")
                  ELSE /\ Log(p, << <<"arch_suspend_disable_irqs", "ok">>,
                                    <<"syscore_suspend", "ok">>,
                                    <<"pm_wakeup_pending", Bool(pending)>> >>)
                       /\ Goto(p, "enter")
  /\ UNCHANGED <<pm_mutex, suspend_ops, suspend_freeze_wake, suspend_stats,
                 pm_test_level, state, loaded, nagain, calls, setter>>

\* arch_suspend_disable_irqs(); syscore_suspend(); *wakeup =
\* pm_wakeup_pending(); and the test that guards suspend_ops->enter().
SyscoreSuspend(p) ==
  /\ pc[p] = "arch_suspend_disable_irqs"
  /\ \E r \in Outcomes, pending \in BOOLEAN :
       /\ SetError(p, ErrOf("syscore_suspend", r))
       /\ IF r = "fail"
          THEN /\ Log(p, << <<"arch_suspend_disable_irqs", "ok">>,
                            <<"syscore_suspend", "fail">> >>)
               /\ Sys("irqs", "disabled")
               /\ Goto(p, "arch_suspend_enable_irqs")
               /\ UNCHANGED wakeup
          ELSE /\ wakeup' = [wakeup EXCEPT ![p] = pending]
               /\ sys' = [sys EXCEPT !.irqs = "disabled",
                                     !.syscore = "suspended"]
               /\ IF suspend_test("TEST_CORE")
                  THEN /\ Log(p, << <<"arch_suspend_disable_irqs", "ok">>,
                                    <<"syscore_suspend", "ok">>,
                                    <<"pm_wakeup_pending", Bool(pending)>>,
                                    <<"suspend_test", "TEST_CORE">> >>)
                       /\ Goto(p, "syscore_resume")
                  ELSE /\ Log(p, << <<"arch_suspend_disable_irqs", "ok">>,
                                    <<"syscore_suspend", "ok">>,
                                    <<"pm_wakeup_pending", Bool(pending)>> >>)
                       /\ Goto(p, IF pending THEN "syscore_resume"
                                  ELSE "enter")
  /\ UNCHANGED <<pm_mutex, suspend_ops, suspend_freeze_wake, suspend_stats,
                 pm_test_level, state, loaded, nagain, calls, setter>>

\* error = suspend_ops->enter(state);
PlatformEnter(p) ==
  /\ pc[p] = "enter"
  /\ \E r \in Outcomes :
       /\ SetError(p, ErrOf("enter", r))
       /\ Log(p, << <<"enter", r>> >>)
  /\ Goto(p, "syscore_resume")
  /\ UNCHANGED <<globals, state, wakeup, loaded, nagain, calls, setter>>

\* syscore_resume();
SyscoreResume(p) ==
  /\ pc[p] = "syscore_resume"
  /\ Log(p, << <<"syscore_resume", "ok">> >>)
  /\ Sys("syscore", "running")
  /\ Goto(p, "arch_suspend_enable_irqs")
  /\ UNCHANGED <<pm_mutex, suspend_ops, suspend_freeze_wake, suspend_stats,
                 pm_test_level, state, error, wakeup, loaded, nagain, calls,
                 setter>>

\* arch_suspend_enable_irqs();
EnableIrqs(p) ==
  /\ pc[p] = "arch_suspend_enable_irqs"
  /\ Log(p, << <<"arch_suspend_enable_irqs", "ok">> >>)
  /\ Sys("irqs", "enabled")
  /\ Goto(p, "Enable_cpus")
  /\ UNCHANGED <<pm_mutex, suspend_ops, suspend_freeze_wake, suspend_stats,
                 pm_test_level, state, error, wakeup, loaded, nagain, calls,
                 setter>>

\* Enable_cpus: enable_nonboot_cpus();
EnableCpus(p) ==
  /\ pc[p] = "Enable_cpus"
  /\ Log(p, << <<"enable_nonboot_cpus", "ok">> >>)
  /\ Sys("cpus", "online")
  /\ Goto(p, "Platform_wake")
  /\ UNCHANGED <<pm_mutex, suspend_ops, suspend_freeze_wake, suspend_stats,
                 pm_test_level, state, error, wakeup, loaded, nagain, calls,
                 setter>>

\* PlatformWake with its two steps in the wrong order.
PlatformWake_Swapped(p) ==
  /\ pc[p] = "Platform_wake"
  /\ Log(p, << <<"dpm_resume_start", "ok">>, CapEv(state[p], "wake", "ok") >>)
  /\ Sys("devs", IF sys.devs = "final" THEN "late" ELSE sys.devs)
  /\ Goto(p, "Platform_finish")
  /\ UNCHANGED <<pm_mutex, suspend_ops, suspend_freeze_wake, suspend_stats,
                 pm_test_level, state, error, wakeup, loaded, nagain, calls,
                 setter>>

\* Platform_wake: suspend_ops->wake(); dpm_resume_start();
PlatformWake(p) ==
  /\ pc[p] = "Platform_wake"
  /\ Log(p, << CapEv(state[p], "wake", "ok"), <<"dpm_resume_start", "ok">> >>)
  /\ Sys("devs", IF sys.devs = "final" THEN "late" ELSE sys.devs)
  /\ Goto(p, "Platform_finish")
  /\ UNCHANGED <<pm_mutex, suspend_ops, suspend_freeze_wake, suspend_stats,
                 pm_test_level, state, error, wakeup, loaded, nagain, calls,
                 setter>>

\* Platform_finish: suspend_ops->finish(); return error;
PlatformFinish(p) ==
  /\ pc[p] = "Platform_finish"
  /\ Log(p, << CapEv(state[p], "finish", "ok"), <<"suspend_enter", "return">> >>)
  /\ Goto(p, "suspend_again")
  /\ UNCHANGED <<globals, state, error, wakeup, loaded, nagain, calls, setter>>

\* ------------------------------- suspend_devices_and_enter, after the loop
\* SuspendAgain with the loop starting at dpm_suspend_start(): the devices are
\* suspended again on every repetition.
SuspendAgain_FromDevices(p) ==
  /\ pc[p] = "suspend_again"
  /\ IF /\ error[p] = 0
        /\ ~wakeup[p]
        /\ need_suspend_ops(state[p])
        /\ Has(suspend_ops, "suspend_again")
     THEN \E again \in BOOLEAN :
            /\ again => nagain[p] < MaxAgain
            /\ Log(p, << <<"suspend_again", Bool(again)>> >>)
            /\ nagain' = [nagain EXCEPT ![p] = IF again THEN @ + 1 ELSE @]
            /\ Goto(p, IF again THEN "dpm_suspend_start" ELSE "Resume_devices")
     ELSE /\ Goto(p, "Resume_devices")
          /\ UNCHANGED <<log, nagain>>
  /\ UNCHANGED <<globals, state, error, wakeup, loaded, calls, setter>>

\* SuspendAgain without the test of wakeup in the loop condition.
SuspendAgain_IgnoreWakeup(p) ==
  /\ pc[p] = "suspend_again"
  /\ IF /\ error[p] = 0
        /\ need_suspend_ops(state[p])
        /\ Has(suspend_ops, "suspend_again")
     THEN \E again \in BOOLEAN :
            /\ again => nagain[p] < MaxAgain
            /\ Log(p, << <<"suspend_again", Bool(again)>> >>)
            /\ nagain' = [nagain EXCEPT ![p] = IF again THEN @ + 1 ELSE @]
            /\ Goto(p, IF again THEN "suspend_enter" ELSE "Resume_devices")
     ELSE /\ Goto(p, "Resume_devices")
          /\ UNCHANGED <<log, nagain>>
  /\ UNCHANGED <<globals, state, error, wakeup, loaded, calls, setter>>

\* } while (!error && !wakeup && need_suspend_ops(state)
\*          && suspend_ops->suspend_again && suspend_ops->suspend_again());
SuspendAgain(p) ==
  /\ pc[p] = "suspend_again"
  /\ IF /\ error[p] = 0
        /\ ~wakeup[p]
        /\ need_suspend_ops(state[p])
        /\ Has(suspend_ops, "suspend_again")
     THEN \E again \in BOOLEAN :
            /\ again => nagain[p] < MaxAgain
            /\ Log(p, << <<"suspend_again", Bool(again)>> >>)
            /\ nagain' = [nagain EXCEPT ![p] = IF again THEN @ + 1 ELSE @]
            /\ Goto(p, IF again THEN "suspend_enter" ELSE "Resume_devices")
     ELSE /\ Goto(p, "Resume_devices")
          /\ UNCHANGED <<log, nagain>>
  /\ UNCHANGED <<globals, state, error, wakeup, loaded, calls, setter>>

\* Recover_platform: suspend_ops->recover(); goto Resume_devices;
RecoverPlatform(p) ==
  /\ pc[p] = "Recover_platform"
  /\ Log(p, << CapEv(state[p], "recover", "ok") >>)
  /\ Goto(p, "Resume_devices")
  /\ UNCHANGED <<globals, state, error, wakeup, loaded, nagain, calls, setter>>

\* Resume_devices: dpm_resume_end(); ftrace_start(); resume_console();
ResumeDevices(p) ==
  /\ pc[p] = "Resume_devices"
  /\ Log(p, << <<"dpm_resume_end", "ok">>, <<"ftrace_start", "ok">>,
               <<"resume_console", "ok">> >>)
  /\ sys' = [sys EXCEPT !.devs = "active", !.ftrace = "running",
                        !.console_out = "running"]
  /\ Goto(p, "Close")
  /\ UNCHANGED <<pm_mutex, suspend_ops, suspend_freeze_wake, suspend_stats,
                 pm_test_level, state, error, wakeup, loaded, nagain, calls,
                 setter>>

\* Close: suspend_ops->end(); return error;
Close(p) ==
  /\ pc[p] = "Close"
  /\ Log(p, << CapEv(state[p], "end", "ok") >>)
  /\ Goto(p, "pm_restore_gfp_mask")
  /\ UNCHANGED <<globals, state, error, wakeup, loaded, nagain, calls, setter>>

\* ------------------------------------------------- enter_state, second half
\* pm_restore_gfp_mask();
RestoreGfp(p) ==
  /\ pc[p] = "pm_restore_gfp_mask"
  /\ Log(p, << <<"pm_restore_gfp_mask", "ok">> >>)
  /\ Sys("gfp", "normal")
  /\ Goto(p, "Finish")
  /\ UNCHANGED <<pm_mutex, suspend_ops, suspend_freeze_wake, suspend_stats,
                 pm_test_level, state, error, wakeup, loaded, nagain, calls,
                 setter>>

\* Finish: suspend_finish();
SuspendFinish(p) ==
  /\ pc[p] = "Finish"
  /\ Log(p, << <<"suspend_thaw_processes", "ok">>, <<"PM_POST_SUSPEND", "ok">>,
               <<"pm_restore_console", "ok">> >>)
  /\ sys' = [sys EXCEPT !.frozen = FALSE, !.notifiers = "none",
                        !.console = "normal"]
  /\ Goto(p, "Unlock")
  /\ UNCHANGED <<pm_mutex, suspend_ops, suspend_freeze_wake, suspend_stats,
                 pm_test_level, state, error, wakeup, loaded, nagain, calls,
                 setter>>

\* Unlock: mutex_unlock(&pm_mutex); return error;
MutexUnlock(p) ==
  /\ pc[p] = "Unlock"
  /\ pm_mutex' = NoOwner
  /\ Log(p, << <<"mutex_unlock", "ok">> >>)
  /\ Goto(p, "stats_load")
  /\ UNCHANGED <<suspend_ops, suspend_freeze_wake, suspend_stats,
                 pm_test_level, sys, state, error, wakeup, loaded, nagain,
                 calls, setter>>

\* ------------------------------------------------- pm_suspend, second half
\* StatField testing error > 0: the negative errno values count as success.
StatField_Positive(e) == IF e > 0 THEN "fail" ELSE "success"

\* The counter chosen by if (error): suspend_stats.fail or .success.
StatField(e) == IF e # 0 THEN "fail" ELSE "success"

\* suspend_stats.fail++ / suspend_stats.success++ is a plain read-modify-write
\* of a shared int made without any lock held: first the read ...
StatsLoad(p) ==
  /\ pc[p] = "stats_load"
  /\ loaded' = [loaded EXCEPT ![p] = suspend_stats[StatField(error[p])]]
  /\ Goto(p, "stats_store")
  /\ UNCHANGED <<globals, state, error, wakeup, nagain, log, calls, setter>>

\* ... then the write.
StatsStore(p) ==
  /\ pc[p] = "stats_store"
  /\ suspend_stats' = [suspend_stats EXCEPT
                         ![StatField(error[p])] = loaded[p] + 1]
  /\ Log(p, << <<"suspend_stats++", StatField(error[p])>> >>)
  /\ Goto(p, "ret")
  /\ UNCHANGED <<pm_mutex, suspend_ops, suspend_freeze_wake, pm_test_level,
                 sys, state, error, wakeup, loaded, nagain, calls, setter>>

\* return error; the locals of the invocation are gone.
PmSuspendReturn(p) ==
  /\ pc[p] = "ret"
  /\ pc' = [pc EXCEPT ![p] = "idle"]
  /\ state' = [state EXCEPT ![p] = PM_SUSPEND_ON]
  /\ error' = [error EXCEPT ![p] = 0]
  /\ wakeup' = [wakeup EXCEPT ![p] = FALSE]
  /\ loaded' = [loaded EXCEPT ![p] = 0]
  /\ nagain' = [nagain EXCEPT ![p] = 0]
  /\ log' = [log EXCEPT ![p] = <<>>]
  /\ UNCHANGED <<globals, calls, setter>>

\* --------------------------------------------------------- the environment
\* freeze_wake(): called by any wakeup source at any time.
FreezeWake ==
  /\ ~suspend_freeze_wake
  /\ suspend_freeze_wake' = TRUE
  /\ UNCHANGED <<pm_mutex, suspend_ops, suspend_stats, pm_test_level, sys,
                 locals, calls, setter>>

\* lock_system_sleep() and unlock_system_sleep() are defined outside this
\* file.  They are taken to be what serialises registration against a suspend
\* attempt in flight: the blocking acquisition and the release of the one
\* exclusive lock, pm_mutex.
SetOpsOwner == "suspend_set_ops"

\* lock_system_sleep() taking nothing: registration is not serialised.
lock_system_sleep_Unserialised == UNCHANGED pm_mutex

lock_system_sleep ==
  /\ pm_mutex = NoOwner
  /\ pm_mutex' = SetOpsOwner

unlock_system_sleep == pm_mutex' = NoOwner

\* suspend_set_ops(ops), called once by the platform's init code:
\* lock_system_sleep(); ...
SetOpsLock(ops) ==
  /\ ops_pc = "idle"
  /\ lock_system_sleep
  /\ ops_pc' = "locked"
  /\ ops_arg' = ops
  /\ UNCHANGED <<suspend_ops, suspend_freeze_wake, suspend_stats,
                 pm_test_level, sys, locals, calls>>

\* ... suspend_ops = ops; unlock_system_sleep();
SetOpsStore ==
  /\ ops_pc = "locked"
  /\ suspend_ops' = ops_arg
  /\ unlock_system_sleep
  /\ ops_pc' = "done"
  /\ UNCHANGED <<suspend_freeze_wake, suspend_stats, pm_test_level, sys,
                 locals, calls, ops_arg>>

\* ------------------------------------------------------- specifications
\* One step of caller p inside pm_suspend().
Step(p) ==
  \/ ValidState(p)
  \/ ValidStateValid(p)
  \/ ValidStateCall(p)
  \/ MutexTrylock(p)
  \/ FreezeBegin(p)
  \/ SuspendPrepare(p)
  \/ TestFreezer(p)
  \/ SuspendBegin(p)
  \/ DpmSuspendStart(p)
  \/ PlatformPrepare(p)
  \/ DpmSuspendEnd(p)
  \/ PlatformPrepareLate(p)
  \/ TestPlatform(p)
  \/ FreezeEnter(p)
  \/ DisableNonbootCpus(p)
  \/ SyscoreSuspend(p)
  \/ PlatformEnter(p)
  \/ SyscoreResume(p)
  \/ EnableIrqs(p)
  \/ EnableCpus(p)
  \/ PlatformWake(p)
  \/ PlatformFinish(p)
  \/ SuspendAgain(p)
  \/ RecoverPlatform(p)
  \/ ResumeDevices(p)
  \/ Close(p)
  \/ RestoreGfp(p)
  \/ SuspendFinish(p)
  \/ MutexUnlock(p)
  \/ StatsLoad(p)
  \/ StatsStore(p)
  \/ PmSuspendReturn(p)

\* One caller, invoking pm_suspend() up to MaxCalls times with any argument,
\* on a machine whose platform driver was registered at boot; wakeup sources
\* call freeze_wake() at any time.
InitSeq == \E ops \in Drivers, level \in TestLevels : Boot(ops, level)
NextSeq ==
  \/ \E s \in States : calls < MaxCalls /\ PmSuspend("p1", s)
  \/ Step("p1")
  \/ FreezeWake
SpecSeq == InitSeq /\ [][NextSeq]_vars

\* Concurrent callers, as many invocations as there are callers, wakeup
\* sources calling freeze_wake() and the platform registering its driver with
\* suspend_set_ops(), from boot.
Init == \E level \in TestLevels : Boot(NULL, level)
Next ==
  \/ \E p \in Procs, s \in States :
       calls < Cardinality(Procs) /\ PmSuspend(p, s)
  \/ \E p \in Procs : Step(p)
  \/ FreezeWake
  \/ \E ops \in Drivers : SetOpsLock(ops)
  \/ SetOpsStore
Spec == Init /\ [][Next]_vars

\* One caller on a machine that booted with any driver, while the platform
\* replaces or removes the driver with suspend_set_ops().
InitOps == \E ops \in Drivers, level \in TestLevels : Boot(ops, level)
NextOps ==
  \/ \E s \in States : calls < MaxCalls /\ PmSuspend("p1", s)
  \/ Step("p1")
  \/ FreezeWake
  \/ \E ops \in Drivers : SetOpsLock(ops)
  \/ SetOpsStore
SpecOps == InitOps /\ [][NextOps]_vars

\* SpecSeq with the scheduler's guarantee: a caller that can take a step of
\* pm_suspend() eventually takes one (a runnable thread runs, and wait_event()
\* returns once its condition has become and stays true).
SpecLive == SpecSeq /\ WF_vars(Step("p1"))

\* ------------------------------------------------- reading the history
HasEv(l, e)   == \E i \in 1..Len(l) : l[i] = e
CountEv(l, e) == Cardinality({i \in 1..Len(l) : l[i] = e})
Count(l, f)   == Cardinality({i \in 1..Len(l) : l[i][1] = f})

\* Where a caller is between a successful mutex_trylock() and mutex_unlock().
LockedPcs ==
  {"freeze_begin", "suspend_prepare", "suspend_test_freezer",
   "suspend_devices_and_enter", "dpm_suspend_start", "suspend_enter",
   "dpm_suspend_end", "prepare_late", "suspend_test_platform", "freeze_enter",
   "disable_nonboot_cpus", "arch_suspend_disable_irqs", "enter",
   "syscore_resume", "arch_suspend_enable_irqs", "Enable_cpus",
   "Platform_wake", "Platform_finish", "suspend_again", "Recover_platform",
   "Resume_devices", "Close", "pm_restore_gfp_mask", "Finish", "Unlock"}

InSequence(p) == pc[p] \in LockedPcs

\* The only thing a caller does before it takes the lock.
PreLockLog == << <<"asus_otg_host_power_off", "ok">> >>

\* ------------------------------------------------------------------ C1
C1_Exclusive ==
  /\ Cardinality({p \in Procs : InSequence(p)}) <= 1
  /\ \A p \in Procs : InSequence(p) => pm_mutex = p

C1_BusyStep ==
  \A p \in Procs :
    (pc[p] = "mutex_trylock" /\ pm_mutex # NoOwner /\ pc'[p] # pc[p])
      => /\ pc'[p] = "stats_load"
         /\ error'[p] = -EBUSY
         /\ log'[p] = PreLockLog
         /\ pm_mutex' = pm_mutex
         /\ sys' = sys

C1_BusyDidNothing ==
  \A p \in Procs :
    (pc[p] \in {"stats_load", "stats_store", "ret"} /\ error[p] = -EBUSY)
      => \A i \in 1..Len(log[p]) :
           log[p][i][1] \in {"asus_otg_host_power_off", "suspend_stats++"}

\* C1: at most one caller of pm_suspend() is between the successful
\* mutex_trylock(&pm_mutex) and mutex_unlock() at any time, and it is the owner
\* of pm_mutex; a caller that reaches the trylock while the mutex is held
\* leaves it in one step with -EBUSY (the trylock never waits) and has run no
\* prepare, device, platform or finish step when it returns.
C1_MutualExclusion ==
  /\ [](C1_Exclusive /\ C1_BusyDidNothing
        /\ \A p \in Procs : pc[p] = "mutex_trylock" => ENABLED MutexTrylock(p))
  /\ [][C1_BusyStep]_vars

\* One caller is suspending devices while another has been turned away.
C1_Witness ==
  \E p, q \in Procs :
    /\ pc[p] = "dpm_suspend_end"
    /\ pc[q] = "ret" /\ error[q] = -EBUSY

\* ------------------------------------------------------------------ C2
\* Every forward phase and the step that undoes it.
UnwindOf ==
  [ pm_prepare_console        |-> "pm_restore_console",
    PM_SUSPEND_PREPARE        |-> "PM_POST_SUSPEND",
    suspend_freeze_processes  |-> "suspend_thaw_processes",
    begin                     |-> "end",
    suspend_console           |-> "resume_console",
    ftrace_stop               |-> "ftrace_start",
    dpm_suspend_start         |-> "dpm_resume_end",
    prepare                   |-> "finish",
    dpm_suspend_end           |-> "dpm_resume_start",
    prepare_late              |-> "wake",
    disable_nonboot_cpus      |-> "enable_nonboot_cpus",
    arch_suspend_disable_irqs |-> "arch_suspend_enable_irqs",
    syscore_suspend           |-> "syscore_resume" ]

Forward == DOMAIN UnwindOf
Unwind  == {UnwindOf[f] : f \in Forward}

\* The place in l of the first attempt of phase f after place i; Len(l) + 1
\* when there is none.
NextAttempt(l, f, i) ==
  IF \E j \in (i + 1)..Len(l) : l[j][1] = f
  THEN CHOOSE j \in (i + 1)..Len(l) :
         l[j][1] = f /\ \A k \in (i + 1)..(j - 1) : l[k][1] # f
  ELSE Len(l) + 1

\* The call site of a callback may be logged "absent" only when the state
\* needs no driver or the driver does not have the callback.
AbsentJustified(s, ev) ==
  ev[2] = "absent" =>
    /\ ev[1] \in AllCaps
    /\ ~(need_suspend_ops(s) /\ Has(suspend_ops, ev[1]))

\* The phase completed at place i of l is undone exactly once before it is
\* attempted again or the invocation ends.
UnwoundOnce(l, s, i) ==
  LET u    == UnwindOf[l[i][1]]
      hits == {j \in (i + 1)..(NextAttempt(l, l[i][1], i) - 1) : l[j][1] = u}
  IN  /\ Cardinality(hits) = 1
      /\ \A j \in hits : AbsentJustified(s, l[j])

\* C2: when pm_suspend() is about to return, every forward phase that
\* completed successfully (console prepare, pre-suspend notification, freeze,
\* begin, console/ftrace quiesce, dpm_suspend_start, prepare, dpm_suspend_end,
\* prepare_late, disable_nonboot_cpus, irq disable, syscore_suspend) has been
\* followed by exactly one execution of its unwind counterpart (one call site
\* reached, the callback called when the driver has it) before the phase was
\* attempted again or the call ended, whatever step failed or checkpoint fired
\* and across suspend_again iterations.
C2_EveryPhaseUnwoundOnce ==
  \A p \in Procs :
    pc[p] = "ret" =>
      \A i \in 1..Len(log[p]) :
        (log[p][i][1] \in Forward /\ log[p][i][2] = "ok")
          => UnwoundOnce(log[p], state[p], i)

\* A call whose second low-level attempt failed in suspend_ops->enter().
C2_Witness ==
  /\ pc["p1"] = "ret"
  /\ nagain["p1"] >= 1
  /\ error["p1"] = CollabErr.enter

\* ------------------------------------------------------------------ C3
\* The history l read as brackets: a forward phase opens, an unwind step must
\* close the phase opened last, and nothing is left open at the end.  A phase
\* that failed opens only if it is in onFail.  A call site reached with the
\* callback absent counts as the (empty) phase or unwind step.
RECURSIVE Bracketed(_, _, _)
Bracketed(l, stack, onFail) ==
  IF l = <<>> THEN stack = <<>>
  ELSE LET f == l[1][1]
           r == l[1][2]
       IN  IF f \in Forward
           THEN IF r = "fail" /\ f \notin onFail
                THEN Bracketed(Tail(l), stack, onFail)
                ELSE Bracketed(Tail(l), <<f>> \o stack, onFail)
           ELSE IF f \in Unwind
           THEN /\ stack # <<>>
                /\ UnwindOf[stack[1]] = f
                /\ Bracketed(Tail(l), Tail(stack), onFail)
           ELSE Bracketed(Tail(l), stack, onFail)

\* The phases whose unwind step the code runs also after the phase itself
\* failed: goto Finish (l.154), goto Close (l.293), goto Recover_platform
\* (l.307), goto Platform_finish (l.196), goto Platform_wake (l.208),
\* goto Enable_cpus (l.227).
UnwoundAfterFailure ==
  {"PM_SUSPEND_PREPARE", "begin", "dpm_suspend_start", "prepare",
   "prepare_late", "disable_nonboot_cpus"}

\* C3 as claimed: the unwind steps are exactly those of the phases that
\* completed successfully, in reverse order; no unwind step runs for a phase
\* that failed.
C3_Original ==
  \A p \in Procs : pc[p] = "ret" => Bracketed(log[p], <<>>, {})

\* C3 as amended: the unwind steps run in exactly the reverse order of the
\* phases entered, none missing and none extra, where a phase counts as entered
\* when it succeeded or when it failed and is one of pre-suspend notification,
\* begin, dpm_suspend_start, prepare, prepare_late, disable_nonboot_cpus (the
\* code runs the unwind step of these after their own failure, and recover
\* right after a failed dpm_suspend_start); a failed freeze, dpm_suspend_end
\* or syscore_suspend is not unwound.
C3_ReverseOrder ==
  \A p \in Procs :
    pc[p] = "ret" =>
      /\ Bracketed(log[p], <<>>, UnwoundAfterFailure)
      /\ \A i \in 1..Len(log[p]) :
           log[p][i] = <<"dpm_suspend_start", "fail">>
             => /\ i < Len(log[p])
                /\ log[p][i + 1][1] = "recover"
                /\ AbsentJustified(state[p], log[p][i + 1])

\* A call in which disable_nonboot_cpus() failed has come to its end.
C3_Witness ==
  /\ pc["p1"] = "ret"
  /\ error["p1"] = CollabErr.disable_nonboot_cpus
  /\ HasEv(log["p1"], <<"enable_nonboot_cpus", "ok">>)

\* ------------------------------------------------------------------ C4
\* The steps of suspend_enter() between Platform_wake and the freeze branch.
HardwareSteps ==
  {"disable_nonboot_cpus", "enable_nonboot_cpus", "arch_suspend_disable_irqs",
   "arch_suspend_enable_irqs", "syscore_suspend", "syscore_resume", "enter"}

HardwarePcs ==
  {"disable_nonboot_cpus", "arch_suspend_disable_irqs", "enter",
   "syscore_resume", "arch_suspend_enable_irqs", "Enable_cpus"}

\* C4: a pm_suspend(PM_SUSPEND_FREEZE) call never is at, and never has made,
\* a call of disable_nonboot_cpus, enable_nonboot_cpus,
\* arch_suspend_disable_irqs, arch_suspend_enable_irqs, syscore_suspend,
\* syscore_resume or suspend_ops->enter, and leaves CPUs, interrupts and core
\* subsystems untouched, whatever fails and whatever pm_test_level is.
C4_FreezeSkipsHardware ==
  \A p \in Procs :
    state[p] = PM_SUSPEND_FREEZE =>
      /\ pc[p] \notin HardwarePcs
      /\ \A i \in 1..Len(log[p]) : log[p][i][1] \notin HardwareSteps
      /\ (pm_mutex = p =>
            sys.cpus = "online" /\ sys.irqs = "enabled"
            /\ sys.syscore = "running")

\* A freeze call that slept in freeze_enter() and was woken.
C4_Witness ==
  /\ state["p1"] = PM_SUSPEND_FREEZE
  /\ pc["p1"] = "ret"
  /\ HasEv(log["p1"], <<"freeze_enter", "ok">>)

\* ------------------------------------------------------------------ C5
InRange(s) == s > PM_SUSPEND_ON /\ s < PM_SUSPEND_MAX

\* The invocation of p has executed exactly one of success++ and fail++, once,
\* the one its return value calls for.
CountedOnce(p) ==
  /\ Count(log[p], "suspend_stats++") = 1
  /\ HasEv(log[p], <<"suspend_stats++",
                     IF error[p] = 0 THEN "success" ELSE "fail">>)

\* C5 as claimed: every call, whatever its argument, increments exactly one
\* of suspend_stats.success and suspend_stats.fail before it returns.
C5_Original ==
  \A p \in Procs : pc[p] = "ret" => CountedOnce(p)

C5_AtReturn ==
  \A p \in Procs :
    pc[p] = "ret" =>
      IF InRange(state[p]) THEN CountedOnce(p)
      ELSE /\ error[p] = -EINVAL
           /\ Count(log[p], "suspend_stats++") = 0

C5_StoreStep ==
  \A p \in Procs :
    (pc[p] = "stats_store" /\ pc'[p] = "ret") =>
      LET f == IF error[p] = 0 THEN "success" ELSE "fail"
      IN  /\ suspend_stats'[f] = loaded[p] + 1
          /\ \A g \in DOMAIN suspend_stats \ {f} :
               suspend_stats'[g] = suspend_stats[g]

\* C5 as amended: a call whose state is in range (PM_SUSPEND_ON < state <
\* PM_SUSPEND_MAX) executes exactly one counter update before it returns,
\* success++ iff it returns 0 and fail++ otherwise, writing the value it read
\* plus one and touching no other counter; a call whose state is out of range
\* returns -EINVAL and updates neither counter.
C5_StatsOncePerValidCall ==
  /\ []C5_AtReturn
  /\ [][C5_StoreStep]_vars

\* Both kinds of call are about to return: one counted, one rejected.
C5_Witness ==
  \E p, q \in Procs :
    /\ pc[p] = "ret" /\ InRange(state[p]) /\ error[p] = 0
    /\ pc[q] = "ret" /\ ~InRange(state[q]) /\ error[q] = -EINVAL

\* ------------------------------------------------------------------ C6
\* C6 as claimed: whenever the lock is released, suspend_finish() has run.
C6_Original ==
  \A p \in Procs :
    HasEv(log[p], <<"mutex_unlock", "ok">>)
      => HasEv(log[p], <<"suspend_thaw_processes", "ok">>)

\* C6 as amended: when the lock is released, suspend_finish() has run exactly
\* once if suspend_prepare() returned 0 (whatever the checkpoint or the device
\* and platform phase did) and not at all if suspend_prepare() failed; in
\* that case suspend_prepare() itself has called PM_POST_SUSPEND and
\* pm_restore_console() once if it got as far as pm_prepare_console(), and
\* nothing if it returned -EPERM.
C6_FinishIffPrepared ==
  \A p \in Procs :
    HasEv(log[p], <<"mutex_unlock", "ok">>) =>
      LET l        == log[p]
          prepared == HasEv(l, <<"suspend_freeze_processes", "ok">>)
          started  == HasEv(l, <<"pm_prepare_console", "ok">>)
      IN  /\ Count(l, "suspend_thaw_processes") = IF prepared THEN 1 ELSE 0
          /\ Count(l, "PM_POST_SUSPEND") = IF started THEN 1 ELSE 0
          /\ Count(l, "pm_restore_console") = IF started THEN 1 ELSE 0
          /\ (prepared <=> error[p] \notin {-EPERM,
                             CollabErr.pm_notifier_call_chain,
                             CollabErr.suspend_freeze_processes})
          /\ (started <=> error[p] # -EPERM)

\* The lock was released after the freezer checkpoint fired, and after a
\* failed freeze.
C6_Witness ==
  /\ pc["p1"] = "stats_load"
  /\ HasEv(log["p1"], <<"suspend_test", "TEST_FREEZER">>)
  /\ suspend_stats.failed_freeze = 1

\* ------------------------------------------------------------------ C7
\* C7 as claimed: whenever a call of pm_suspend() is about to return, the
\* caller does not hold pm_mutex and the machine is fully operative.
C7_Original ==
  \A p \in Procs : pc[p] = "ret" => (pm_mutex # p /\ sys = Operative)

\* C7 as amended: whenever a call of pm_suspend() is about to return, the
\* caller does not hold pm_mutex, and the machine is fully operative
\* (interrupts enabled, CPUs online, core subsystems and devices resumed,
\* console output and tracing restarted, processes thawed, console mode and
\* gfp mask restored) unless another caller's suspend sequence is in flight;
\* more generally the machine is fully operative whenever no caller is
\* between mutex_trylock() and mutex_unlock().
C7_OperativeAtReturn ==
  /\ \A p \in Procs : pc[p] = "ret" => pm_mutex # p
  /\ (\A q \in Procs : ~InSequence(q)) => sys = Operative

\* A call that failed in syscore_suspend(), deep in the sequence, is about to
\* return and nobody else is suspending.
C7_Witness ==
  \E p \in Procs :
    /\ pc[p] = "ret"
    /\ error[p] = CollabErr.syscore_suspend
    /\ \A q \in Procs : ~InSequence(q)

\* ------------------------------------------------------------------ C8
\* C8: in a call where suspend_again() was consulted and answered true n
\* times and then false (so every low-level attempt returned 0 with no wakeup
\* pending), suspend_enter() was called exactly n + 1 times, while the call
\* sites of begin, dpm_suspend_start, dpm_resume_end and end were each
\* reached exactly once.
C8_AgainLoop ==
  \A p \in Procs :
    (pc[p] = "ret" /\ HasEv(log[p], <<"suspend_again", "false">>)) =>
      LET l == log[p]
          n == CountEv(l, <<"suspend_again", "true">>)
      IN  /\ CountEv(l, <<"suspend_again", "false">>) = 1
          /\ n = nagain[p]
          /\ CountEv(l, <<"suspend_enter", "call">>) = n + 1
          /\ CountEv(l, <<"suspend_enter", "return">>) = n + 1
          /\ Count(l, "begin") = 1
          /\ Count(l, "dpm_suspend_start") = 1
          /\ Count(l, "dpm_resume_end") = 1
          /\ Count(l, "end") = 1

\* suspend_again() answered true twice and then false: three attempts.
C8_Witness ==
  /\ pc["p1"] = "ret"
  /\ CountEv(log["p1"], <<"suspend_again", "true">>) = 2
  /\ HasEv(log["p1"], <<"suspend_again", "false">>)
  /\ CountEv(log["p1"], <<"suspend_enter", "call">>) = 3
  /\ CountEv(log["p1"], <<"enter", "ok">>) = 3

\* ------------------------------------------------------------------ C9
\* A call for suspend-to-RAM under pm_test_level = TEST_DEVICES whose
\* dpm_suspend_start() succeeded is about to return.
C9_Case(p) ==
  /\ pc[p] = "ret"
  /\ pm_test_level = "TEST_DEVICES"
  /\ state[p] = PM_SUSPEND_MEM
  /\ HasEv(log[p], <<"dpm_suspend_start", "ok">>)

\* The checkpoint fired right after dpm_suspend_start(), recover was called
\* next (when the driver has it), then the devices were resumed, and
\* suspend_enter() was never called.
C9_Path(p) ==
  \E i \in 1..Len(log[p]) :
    /\ log[p][i] = <<"dpm_suspend_start", "ok">>
    /\ i + 3 <= Len(log[p])
    /\ log[p][i + 1] = <<"suspend_test", "TEST_DEVICES">>
    /\ log[p][i + 2][1] = "recover"
    /\ AbsentJustified(state[p], log[p][i + 2])
    /\ log[p][i + 3] = <<"dpm_resume_end", "ok">>
    /\ Count(log[p], "suspend_enter") = 0
    /\ Count(log[p], "dpm_suspend_start") = 1

\* C9 as claimed: ... and pm_suspend() returns a non-zero error, counted as a
\* failure.
C9_Original ==
  \A p \in Procs :
    C9_Case(p) =>
      /\ C9_Path(p)
      /\ error[p] # 0
      /\ HasEv(log[p], <<"suspend_stats++", "fail">>)

\* C9 as amended: with pm_test_level == TEST_DEVICES and state
\* suspend-to-RAM, after dpm_suspend_start() has succeeded the checkpoint
\* fires, recover is invoked, the devices are resumed with dpm_resume_end(),
\* suspend_enter() is never invoked, and pm_suspend() returns 0, which is
\* counted as a success.
C9_CheckpointDevices ==
  \A p \in Procs :
    C9_Case(p) =>
      /\ C9_Path(p)
      /\ error[p] = 0
      /\ HasEv(log[p], <<"suspend_stats++", "success">>)

\* The case with a driver that has every callback.
C9_Witness ==
  /\ C9_Case("p1")
  /\ suspend_ops = "full"
  /\ HasEv(log["p1"], <<"recover", "ok">>)

\* ----------------------------------------------------------------- C10
NotSuspendTest(ev) == ev[1] # "suspend_test"

\* What follows a pending wakeup up to the return of pm_suspend().
C10_Expected(s) ==
  << <<"syscore_resume", "ok">>,
     <<"arch_suspend_enable_irqs", "ok">>,
     <<"enable_nonboot_cpus", "ok">>,
     CapEv(s, "wake", "ok"),
     <<"dpm_resume_start", "ok">>,
     CapEv(s, "finish", "ok"),
     <<"suspend_enter", "return">>,
     <<"dpm_resume_end", "ok">>,
     <<"ftrace_start", "ok">>,
     <<"resume_console", "ok">>,
     CapEv(s, "end", "ok"),
     <<"pm_restore_gfp_mask", "ok">>,
     <<"suspend_thaw_processes", "ok">>,
     <<"PM_POST_SUSPEND", "ok">>,
     <<"pm_restore_console", "ok">>,
     <<"mutex_unlock", "ok">>,
     <<"suspend_stats++", "success">> >>

\* C10: when pm_wakeup_pending() is true after a successful
\* syscore_suspend(), suspend_ops->enter() is not invoked in that attempt;
\* syscore_resume, irq enable, enable_nonboot_cpus, wake, dpm_resume_start and
\* finish follow in that order; suspend_enter() returns 0; the loop ends
\* without calling suspend_again(); the devices are resumed, the sequence is
\* finished and pm_suspend() returns 0 and counts a success.
C10_WakeupPending ==
  \A p \in Procs :
    pc[p] = "ret" =>
      \A i \in 1..Len(log[p]) :
        log[p][i] = <<"pm_wakeup_pending", "true">> =>
          /\ SelectSeq(SubSeq(log[p], i + 1, Len(log[p])), NotSuspendTest)
               = C10_Expected(state[p])
          /\ error[p] = 0
          /\ wakeup[p]

\* A wakeup was pending in the second low-level attempt.
C10_Witness ==
  /\ pc["p1"] = "ret"
  /\ HasEv(log["p1"], <<"pm_wakeup_pending", "true">>)
  /\ HasEv(log["p1"], <<"suspend_again", "true">>)

\* ------------------------------------------------------------------ C11
\* pm_suspend(PM_SUSPEND_STANDBY) on a machine with no platform driver.
C11_Case(p) ==
  /\ suspend_ops = NULL
  /\ state[p] = PM_SUSPEND_STANDBY
  /\ pc[p] # "idle"

\* C11 as claimed: the call returns the error of the no-driver check,
\* which the code spells -ENOSYS (suspend_devices_and_enter).
C11_Original ==
  \A p \in Procs : (C11_Case(p) /\ pc[p] = "ret") => error[p] = -ENOSYS

C11_Untouched ==
  \A p \in Procs :
    C11_Case(p) =>
      /\ pm_mutex = NoOwner
      /\ sys = Operative
      /\ pc[p] \in {"valid_state", "stats_load", "stats_store", "ret"}
      /\ pc[p] = "ret" =>
           /\ error[p] = -ENODEV
           /\ log[p] = PreLockLog \o << <<"suspend_stats++", "fail">> >>

C11_CountStep ==
  \A p \in Procs :
    (C11_Case(p) /\ pc[p] = "stats_store" /\ pc'[p] = "ret") =>
      suspend_stats' = [suspend_stats EXCEPT !.fail = @ + 1]

\* C11 as amended: pm_suspend(PM_SUSPEND_STANDBY) with no platform driver
\* registered is turned away by valid_state() with -ENODEV, the value a
\* registered driver declining the state produces too (not -ENOSYS); it adds
\* exactly one to suspend_stats.fail and leaves the other counters alone; it
\* never takes pm_mutex and calls no prepare, device, platform or finish step.
C11_NoDriverStandby ==
  /\ []C11_Untouched
  /\ [][C11_CountStep]_vars

\* Such a call is about to return.
C11_Witness ==
  /\ C11_Case("p1")
  /\ pc["p1"] = "ret"
  /\ suspend_stats.fail >= 1

\* ------------------------------------------------------------------ C12
\* A caller is inside a counter's ++: it has read the counter and has not
\* yet written it back.
InIncrement(p) == pc[p] = "stats_store"

C12_NeverTogether ==
  \A p, q \in Procs : (InIncrement(p) /\ InIncrement(q)) => p = q

C12_MutationStep ==
  suspend_stats' # suspend_stats =>
    \E p \in Procs : pm_mutex = p /\ pc'[p] # pc[p]

\* C12: every change of suspend_stats (success, fail, failed_freeze) is a step
\* of the caller that owns pm_mutex, and no two callers are ever inside a
\* counter update at the same time.
C12_StatsUnderLock ==
  /\ []C12_NeverTogether
  /\ [][C12_MutationStep]_vars

\* What the unlocked ++ costs: two failed calls are about to return and
\* suspend_stats.fail has counted one of them.
C12_LostUpdate ==
  \E p, q \in Procs :
    /\ p # q
    /\ pc[p] = "ret" /\ error[p] # 0 /\ InRange(state[p])
    /\ pc[q] = "ret" /\ error[q] # 0 /\ InRange(state[q])
    /\ suspend_stats.fail = 1

\* ------------------------------------------------------------------ C13
C13_SameDriverStep ==
  (\E p \in Procs : InSequence(p) /\ pm_mutex = p) => suspend_ops' = suspend_ops

C13_SetterOutside ==
  \A p \in Procs :
    InSequence(p) =>
      /\ ops_pc # "locked"
      /\ ~ENABLED (\E ops \in Drivers : SetOpsLock(ops))

\* C13: while a caller of enter_state() is between its successful
\* mutex_trylock() and its mutex_unlock(), suspend_set_ops() is neither
\* between its lock and unlock nor able to take the lock, and no step changes
\* suspend_ops: every phase of one attempt sees the same driver.
C13_SetOpsSerialized ==
  /\ []C13_SetterOutside
  /\ [][C13_SameDriverStep]_vars

\* The platform has yet to call suspend_set_ops() while a caller is about to
\* invoke suspend_ops->enter() of the driver registered at boot.
C13_Witness ==
  /\ pc["p1"] = "enter"
  /\ suspend_ops # NULL
  /\ ops_pc = "idle"

\* ------------------------------------------------------------------ C14
\* A freeze attempt of p is past its freeze_begin() and has not yet returned
\* from freeze_enter().
FreezePending(p) ==
  /\ state[p] = PM_SUSPEND_FREEZE
  /\ pc[p] \in {"suspend_prepare", "suspend_test_freezer",
                "suspend_devices_and_enter", "dpm_suspend_start",
                "suspend_enter", "dpm_suspend_end", "prepare_late",
                "suspend_test_platform", "freeze_enter"}

C14_KeptStep ==
  \A p \in Procs :
    (FreezePending(p) /\ suspend_freeze_wake) => suspend_freeze_wake'

C14_Wakes ==
  \A p \in Procs :
    (pc[p] = "freeze_enter" /\ suspend_freeze_wake) => ENABLED FreezeEnter(p)

C14_AtReturn ==
  \A p \in Procs :
    (pc[p] = "ret" /\ HasEv(log[p], <<"freeze_enter", "call">>)) =>
      /\ HasEv(log[p], <<"freeze_enter", "ok">>)
      /\ error[p] = 0
      /\ Count(log[p], "suspend_stats++") = 1
      /\ HasEv(log[p], <<"suspend_stats++", "success">>)
      /\ Count(log[p], "disable_nonboot_cpus") = 0
      /\ Count(log[p], "enable_nonboot_cpus") = 0

C14_CountStep ==
  \A p \in Procs :
    (pc[p] = "stats_store" /\ pc'[p] = "ret"
       /\ HasEv(log[p], <<"freeze_enter", "call">>)) =>
      suspend_stats' = [suspend_stats EXCEPT !.success = @ + 1]

\* C14: once freeze_wake() has set the flag after a freeze attempt's
\* freeze_begin(), before or during the wait, the flag stays set until
\* freeze_enter() has returned, a caller waiting in freeze_enter() with the
\* flag set can return, and the call goes on to return: a call that reached
\* freeze_enter() (every collaborator before it succeeded) returns 0, has
\* counted one success and has made no disable_nonboot_cpus() or
\* enable_nonboot_cpus() call.
C14_WakeNotLost ==
  /\ [](C14_Wakes /\ C14_AtReturn)
  /\ [][C14_KeptStep /\ C14_CountStep]_vars
  /\ ((FreezePending("p1") /\ suspend_freeze_wake) ~> (pc["p1"] = "ret"))

\* freeze_wake() came after freeze_begin() and before the caller waits.
C14_Witness ==
  /\ FreezePending("p1")
  /\ pc["p1"] = "prepare_late"
  /\ suspend_freeze_wake
  /\ pm_test_level = "TEST_NONE"

\* ------------------------------------------------------------------ C15
C15_BeginClears ==
  \A p \in Procs :
    (pc[p] = "freeze_begin" /\ state[p] = PM_SUSPEND_FREEZE
       /\ pc'[p] # pc[p]) => ~suspend_freeze_wake'

C15_OnlyWakeSets ==
  (~suspend_freeze_wake /\ suspend_freeze_wake') => FreezeWake

C15_ReturnNeedsFlag ==
  \A p \in Procs :
    (pc[p] = "freeze_enter" /\ pc'[p] # pc[p]) =>
      /\ suspend_freeze_wake
      /\ FreezePending(p)

C15_Waiting ==
  \A p \in Procs :
    (pc[p] = "freeze_enter" /\ ~suspend_freeze_wake) =>
      ~ENABLED FreezeEnter(p)

\* C15: the freeze_begin() of a freeze attempt leaves suspend_freeze_wake
\* false whatever it held (a wake from an earlier cycle, from a suspend to
\* another state or from an idle period); from then on the flag becomes true
\* by a freeze_wake() call and by nothing else; and freeze_enter() returns
\* only while the flag is true.  So freeze_enter() returns only if
\* freeze_wake() was called after the freeze_begin() of the same attempt.
C15_NoStaleWake ==
  /\ []C15_Waiting
  /\ [][C15_BeginClears /\ C15_OnlyWakeSets /\ C15_ReturnNeedsFlag]_vars

\* A freeze attempt waits in freeze_enter() although an earlier freeze cycle
\* was woken: the wake of that cycle is gone.
C15_Witness ==
  /\ pc["p1"] = "freeze_enter"
  /\ ~suspend_freeze_wake
  /\ suspend_stats.success = 1
  /\ pm_test_level = "TEST_NONE"
  /\ suspend_ops = NULL
  /\ ops_pc = "idle"

\* ------------------------------------------------------------------ C16
\* The places in the history of p where dpm_suspend_end() failed.
EndFailures(p) ==
  {i \in 1..Len(log[p]) : log[p][i] = <<"dpm_suspend_end", "fail">>}

\* C16 as claimed: after a failed dpm_suspend_end() the next steps are the
\* wake callback (or its absence), dpm_resume_start() and then finish.
C16_Original ==
  \A p \in Procs : \A i \in EndFailures(p) :
    /\ Len(log[p]) > i     => log[p][i + 1][1] = "wake"
    /\ Len(log[p]) > i + 1 => log[p][i + 2] = <<"dpm_resume_start", "ok">>
    /\ Len(log[p]) > i + 2 => log[p][i + 3][1] = "finish"

\* C16 as amended: after a failed dpm_suspend_end() control is at
\* Platform_finish: the next step is the finish callback (if the driver has
\* one), then suspend_enter() returns; neither the wake callback nor
\* dpm_resume_start() is called in the rest of the attempt, which returns the
\* error of dpm_suspend_end().
C16_EndFailureToFinish ==
  \A p \in Procs : \A i \in EndFailures(p) :
    /\ Len(log[p]) = i     => pc[p] = "Platform_finish"
    /\ Len(log[p]) > i     =>
         log[p][i + 1] = CapEv(state[p], "finish", "ok")
    /\ Len(log[p]) > i + 1 => log[p][i + 2] = <<"suspend_enter", "return">>
    /\ \A j \in (i + 1)..Len(log[p]) :
         log[p][j][1] \notin {"wake", "dpm_resume_start"}
    /\ pc[p] # "idle" => error[p] = CollabErr.dpm_suspend_end

\* A call on a driver with a wake callback returns after dpm_suspend_end()
\* failed.
C16_Witness ==
  /\ pc["p1"] = "ret"
  /\ EndFailures("p1") # {}
  /\ need_suspend_ops(state["p1"])
  /\ Has(suspend_ops, "wake")
  /\ Has(suspend_ops, "finish")

\* ------------------------------------------------------------------ C17
\* Where a caller is after suspend_devices_and_enter() has returned.
ReturnedPcs ==
  {"pm_restore_gfp_mask", "Finish", "Unlock", "stats_load", "stats_store",
   "ret"}

\* What suspend_devices_and_enter() calls between begin() and Close.
BetweenBeginAndClose ==
  {"suspend_console", "ftrace_stop", "dpm_suspend_start", "suspend_test",
   "suspend_enter", "prepare", "dpm_suspend_end", "prepare_late",
   "freeze_enter", "enter", "wake", "dpm_resume_start", "finish",
   "suspend_again", "recover", "dpm_resume_end", "ftrace_start",
   "resume_console"} \cup HardwareSteps

\* The calls of the history that failed.
Failures(l) == {i \in 1..Len(l) : l[i][2] = "fail"}

FirstFailure(l) == CHOOSE i \in Failures(l) : \A j \in Failures(l) : i <= j

C17_BeginFailed ==
  \A p \in Procs :
    HasEv(log[p], <<"begin", "fail">>) =>
      /\ \A i \in 1..Len(log[p]) : log[p][i][1] \notin BetweenBeginAndClose
      /\ error[p] = CollabErr.begin
      /\ pc[p] \in {"Close"} \cup ReturnedPcs
      /\ Count(log[p], "end") = IF pc[p] = "Close" THEN 0 ELSE 1

C17_General ==
  \A p \in Procs :
    (pc[p] \in ReturnedPcs /\ Count(log[p], "begin") > 0) =>
      /\ Count(log[p], "begin") = 1
      /\ Count(log[p], "end") = 1
      /\ HasEv(log[p], CapEv(state[p], "end", "ok"))
      /\ error[p] = IF Failures(log[p]) = {} THEN 0
                    ELSE CollabErr[log[p][FirstFailure(log[p])][1]]

\* C17: when suspend_ops->begin() fails, suspend_devices_and_enter() runs no
\* console or tracing quiesce, device suspend, recover, suspend_enter() or
\* device resume step, goes to Close, calls end() exactly once (if the driver
\* has it) and returns the error of begin(); and on every path on which the
\* begin() call site was reached, the end() call site is reached exactly once
\* and the value returned is the error of the first call that failed, or 0.
C17_BeginFailureClose ==
  C17_BeginFailed /\ C17_General

\* begin() of a driver that has end() failed, and the function has returned.
C17_Witness ==
  /\ pc["p1"] = "pm_restore_gfp_mask"
  /\ HasEv(log["p1"], <<"begin", "fail">>)
  /\ HasEv(log["p1"], <<"end", "ok">>)

\* ------------------------------------------------------------------ C18
\* The machine with every forward phase of the sequence done and none undone.
FullySuspended ==
  [ console      |-> "suspend",
    notifiers    |-> "prepared",
    frozen       |-> TRUE,
    gfp          |-> "restricted",
    console_out  |-> "suspended",
    ftrace       |-> "stopped",
    devs         |-> "final",
    cpus         |-> "offline",
    irqs         |-> "disabled",
    syscore      |-> "suspended" ]

\* What the current pass through suspend_enter() has done when it reaches
\* suspend_ops->enter().
PassBeforeEnter(s) ==
  << <<"suspend_enter", "call">>,
     CapEv(s, "prepare", "ok"),
     <<"dpm_suspend_end", "ok">>,
     CapEv(s, "prepare_late", "ok"),
     <<"disable_nonboot_cpus", "ok">>,
     <<"arch_suspend_disable_irqs", "ok">>,
     <<"syscore_suspend", "ok">>,
     <<"pm_wakeup_pending", "false">> >>

\* C18: whenever a caller is about to invoke suspend_ops->enter(state), it
\* owns pm_mutex, the driver has enter, the state needs a driver, every
\* forward phase is done and not undone (console switched, notifiers told,
\* processes frozen, allocations restricted, console and tracing stopped,
\* devices suspended through dpm_suspend_start and dpm_suspend_end, CPUs
\* offline, interrupts disabled, core subsystems suspended), prepare and
\* prepare_late (if present) returned 0 in this pass, no call of the attempt
\* failed, no wakeup was pending, no test checkpoint fired and the error so
\* far is 0.
C18_EnterPreconditions ==
  \A p \in Procs :
    pc[p] = "enter" =>
      /\ pm_mutex = p
      /\ need_suspend_ops(state[p])
      /\ Has(suspend_ops, "enter")
      /\ sys = FullySuspended
      /\ Len(log[p]) >= Len(PassBeforeEnter(state[p]))
      /\ SubSeq(log[p], Len(log[p]) - Len(PassBeforeEnter(state[p])) + 1,
                Len(log[p])) = PassBeforeEnter(state[p])
      /\ Failures(log[p]) = {}
      /\ Count(log[p], "suspend_test") = 0
      /\ pm_test_level = "TEST_NONE"
      /\ ~wakeup[p]
      /\ error[p] = 0

\* One caller is about to invoke enter() for the second time in an attempt
\* while another is at the trylock.
C18_Witness ==
  \E p, q \in Procs :
    /\ pc[p] = "enter"
    /\ nagain[p] = 1
    /\ pc[q] = "mutex_trylock"

\* ------------------------------------------------------------------ C19
\* Where a caller is between the first read of suspend_ops by valid_state()
\* and mutex_unlock().
ValidatedPcs ==
  {"valid_state_valid", "valid_state_call", "mutex_trylock"} \cup LockedPcs

C19_EnterValidated ==
  \A p \in Procs : pc[p] = "enter" => valid_state(state[p])

C19_NoNullDeref ==
  \A p \in Procs : pc[p] # "oops"

C19_SameDriverStep ==
  \A p \in Procs :
    (need_suspend_ops(state[p]) /\ pc[p] \in ValidatedPcs)
      => suspend_ops' = suspend_ops

\* C19: with suspend_set_ops() running concurrently, suspend_ops->enter(state)
\* is invoked only on a driver whose valid() accepts the state, the driver
\* does not change between valid_state() and mutex_unlock(), and no thread
\* reads a callback through a NULL suspend_ops.
C19_ValidatedDriver ==
  /\ [](C19_EnterValidated /\ C19_NoNullDeref)
  /\ [][C19_SameDriverStep]_vars

\* suspend_ops->enter(state) is about to be invoked on a driver whose valid()
\* rejects the state.
C19_EnterUnvalidated ==
  /\ pc["p1"] = "enter"
  /\ suspend_ops # NULL
  /\ state["p1"] \notin DriverValid[suspend_ops]

\* ------------------------------------------------------------------ C20
C20_ClearStep ==
  (suspend_freeze_wake /\ ~suspend_freeze_wake') =>
    \E p \in Procs :
      /\ pm_mutex = p
      /\ pc[p] = "freeze_begin"
      /\ state[p] = PM_SUSPEND_FREEZE
      /\ pc'[p] = "suspend_prepare"

C20_BusyStep ==
  \A p \in Procs :
    (pc[p] = "mutex_trylock" /\ pc'[p] = "stats_load") =>
      /\ error'[p] = -EBUSY
      /\ suspend_freeze_wake' = suspend_freeze_wake

C20_BusyNeverBegan ==
  \A p \in Procs :
    (pc[p] # "idle" /\ error[p] = -EBUSY) =>
      /\ Count(log[p], "freeze_begin") = 0
      /\ pc[p] \in {"stats_load", "stats_store", "ret"}

C20_DeliveredStep ==
  \A p \in Procs :
    (FreezePending(p) /\ pm_mutex = p /\ suspend_freeze_wake)
      => suspend_freeze_wake'

\* C20: suspend_freeze_wake goes from true to false only by the freeze_begin()
\* of the caller that owns pm_mutex; a caller turned away by the trylock
\* leaves with -EBUSY without having called freeze_begin() and without
\* touching the flag; so a wake delivered to the freeze attempt in flight
\* stays delivered until its freeze_enter() has returned.
C20_ClearedOnlyByOwner ==
  /\ []C20_BusyNeverBegan
  /\ [][C20_ClearStep /\ C20_BusyStep /\ C20_DeliveredStep]_vars

\* A freeze attempt has been woken and not yet returned from freeze_enter()
\* while a second pm_suspend(PM_SUSPEND_FREEZE) has been turned away.
C20_Witness ==
  \E p, q \in Procs :
    /\ pc[p] = "freeze_enter"
    /\ suspend_freeze_wake
    /\ state[q] = PM_SUSPEND_FREEZE
    /\ pc[q] = "stats_load"
    /\ error[q] = -EBUSY

====
